---- MODULE Spec2Model ----
(***************************************************************************)
(* SecureRng (src/main2.rs): a 1024-byte entropy pool with a read cursor,  *)
(* refilled from the operating system's entropy source, and the values     *)
(* derived from it (next_u32, gen_range, gen_normal, next_nonzero_u32).    *)
(*                                                                         *)
(* Bytes are modelled with ByteBase values instead of 256, so that a       *)
(* 4-byte word has ByteBase^4 values instead of 2^32; pool size, word      *)
(* size and the request cap are the program's.                             *)
(***************************************************************************)
EXTENDS Integers, Sequences, FiniteSets, TLC

\* ------------------------------------------------------------- bounds
\* number of values a byte can take (256 in the program)
ByteBase == 2
\* number of failed entropy reads in one run
MaxFailures == 1
\* number of consecutive next_u32 draws followed in SpecDraws
MaxDraws == 600
\* number of calls of the provider-handle get_random_bytes followed in SpecHandle
MaxHandleCalls == 5

\* ---------------------------------------------------------- constants
POOL_SIZE == 1024
WORD_BYTES == 4
BufferCap == 1024 * 1024
\* u32::MAX for a word of WORD_BYTES bytes
U32MAX == ByteBase^WORD_BYTES - 1

\* ------------------------------------------------------------- state
VARIABLES
    buffer,         \* SecureRng.buffer: the pool, a sequence of bytes
    position,       \* SecureRng.position: the cursor
    pc,             \* "idle", or the operation whose loop is in flight, or "panicked"
    call,           \* the operation called last and its arguments
    u1,             \* gen_normal: the first draw, while the second is pending
    ret,            \* what the last operation returned ("Pending" while in flight)
    out,            \* the bytes the last fill_bytes copied to its caller
    reads,          \* entropy reads made by the last step (0 or 1)
    readLen,        \* length of the span handed to get_random_bytes by the last step
    retried,        \* the current operation is past its first draw
    opFailed,       \* an entropy read failed inside the current operation
    readAfterFail,  \* an entropy read was made after a failed one, inside one operation
    failures,       \* failed entropy reads so far
    served,         \* pool indexes handed out since the source last wrote them
                    \* (no longer followed once servedTwice holds)
    servedTwice,    \* a pool byte was handed out again before the source rewrote it
    poolFresh,      \* SpecTraced: the last entropy read succeeded: the pool is one fresh fill
    seams,          \* SpecTraced: pool indexes i where bytes i and i+1 are not of the same fill
    draws,          \* SpecDraws: next_u32 calls so far
    refills,        \* SpecDraws: entropy reads so far
    delivered,      \* SpecDraws: the blocks the entropy source delivered, in order
    win             \* SpecHandle: a call of the provider-handle get_random_bytes

rngVars == <<buffer, position, pc, call, u1, ret, out, reads, readLen, retried,
             opFailed, readAfterFail, failures, served, servedTwice, poolFresh, seams>>
vars == <<rngVars, draws, refills, delivered, win>>

\* ------------------------------------------------------------ results
Ok(v) == [kind |-> "Ok", val |-> v, err |-> "none"]
Err(e) == [kind |-> "Err", val |-> 0, err |-> e]
Pending == [kind |-> "Pending", val |-> 0, err |-> "none"]
Panic == [kind |-> "Panic", val |-> 0, err |-> "index out of range"]

\* ----------------------------------------------------- entropy source
\* What the operating system delivers on one read: on success a block of
\* bytes, the little-endian bytes of the words a, a+d, a+2d, ...; on failure
\* the first `cut` bytes of such a block are written and the rest is left.
SourceByte(src, i) ==
    LET j == (i - 1) \div WORD_BYTES
        t == (i - 1) % WORD_BYTES
        w == (src.a + j * src.d) % (U32MAX + 1)
    IN (w \div (ByteBase^t)) % ByteBase

OkSource(a, d) == [ok |-> TRUE, a |-> a, d |-> d, cut |-> POOL_SIZE]
FailSource(a, d, cut) == [ok |-> FALSE, a |-> a, d |-> d, cut |-> cut]
NoRead == [ok |-> TRUE, a |-> 0, d |-> 0, cut |-> 0]

\* the blocks of the full machine, and those of every first word
FewSeeds == {<<0, 0>>, <<U32MAX, 1>>}
AllSeeds == ((0..U32MAX) \X {1}) \cup FewSeeds
\* how much of the span a failing read has written: nothing (open failed),
\* a part of it (read_exact failed), all of it (the handle release failed)
FailCuts == {0, 6, POOL_SIZE}

Sources(seeds, canFail) ==
    {OkSource(s[1], s[2]) : s \in seeds}
    \cup (IF canFail
          THEN {FailSource(0, 0, 0)}
               \cup {FailSource(s[1], s[2], c) : s \in seeds, c \in FailCuts \ {0}}
          ELSE {})

\* the POOL_SIZE-byte block of every seed <<a, d>>, computed once: the
\* block of <<a, d>> is entry 2a + d + 1
BlockTable ==
    SubSeq([k \in 1..(2 * (U32MAX + 1)) |->
              SubSeq([i \in 1..POOL_SIZE |->
                        SourceByte([a |-> (k - 1) \div 2, d |-> (k - 1) % 2], i)],
                     1, POOL_SIZE)],
           1, 2 * (U32MAX + 1))
Block(src) == BlockTable[2 * src.a + src.d + 1]

\* get_random_bytes(buf): fills buf completely, or fails having written
\* the first src.cut bytes
GetRandomBytes(buf, src) ==
    LET block == Block(src)
        cut == IF src.ok THEN Len(buf) ELSE src.cut
    IN [ok |-> src.ok,
        buf |-> SubSeq(block, 1, cut) \o SubSeq(buf, cut + 1, Len(buf))]

\* ------------------------------------------------------------ SecureRng
\* Vec::resize(new_len, value)
\* mutant: the pool is resized one byte short
ResizeOffByOne(buf, newLen, value) ==
    IF Len(buf) >= newLen - 1
    THEN SubSeq(buf, 1, newLen - 1)
    ELSE buf \o [i \in 1..(newLen - 1 - Len(buf)) |-> value]

\* self.buffer.resize(newLen, value)
Resize(buf, newLen, value) ==
    IF Len(buf) >= newLen
    THEN SubSeq(buf, 1, newLen)
    ELSE buf \o [i \in 1..(newLen - Len(buf)) |-> value]

\* mutant: the cap is compared one too high
TooLargeOffByOne(n) == n > BufferCap + 1

\* the request is above the absolute cap
TooLarge(n) == n > BufferCap

\* mutant: a request ending exactly at the end of the pool refills too
NeedsRefillEarly(buf, pos, n) == pos + n >= Len(buf)

\* the request does not fit in the unread remainder
NeedsRefill(buf, pos, n) == pos + n > Len(buf)

\* mutant: the cursor is set past the first word of the new pool
RefillPositionSkip(pos) == WORD_BYTES

\* the cursor after a refill
RefillPosition(pos) == 0

\* mutant: the cursor is not advanced after the copy
CopyOutNoAdvance(buf, pos, n, rd, rlen) ==
    IF pos + n > Len(buf)
    THEN [res |-> Panic, buffer |-> buf, position |-> pos, out |-> <<>>,
          reads |-> rd, readLen |-> rlen, failed |-> FALSE, written |-> rlen]
    ELSE [res |-> Ok(0), buffer |-> buf, position |-> pos,
          out |-> SubSeq(buf, pos + 1, pos + n),
          reads |-> rd, readLen |-> rlen, failed |-> FALSE, written |-> rlen]

\* mutant: the cursor is advanced before the slice is taken
CopyOutAdvanceFirst(buf, pos, n, rd, rlen) ==
    IF pos + n > Len(buf)
    THEN [res |-> Panic, buffer |-> buf, position |-> pos + n, out |-> <<>>,
          reads |-> rd, readLen |-> rlen, failed |-> FALSE, written |-> rlen]
    ELSE [res |-> Ok(0), buffer |-> buf, position |-> pos + n,
          out |-> SubSeq(buf, pos + 1, pos + n),
          reads |-> rd, readLen |-> rlen, failed |-> FALSE, written |-> rlen]

\* buf.copy_from_slice(&self.buffer[position..position + n]); position += n
CopyOut(buf, pos, n, rd, rlen) ==
    IF pos + n > Len(buf)
    THEN [res |-> Panic, buffer |-> buf, position |-> pos, out |-> <<>>,
          reads |-> rd, readLen |-> rlen, failed |-> FALSE, written |-> rlen]
    ELSE [res |-> Ok(0), buffer |-> buf, position |-> pos + n,
          out |-> SubSeq(buf, pos + 1, pos + n),
          reads |-> rd, readLen |-> rlen, failed |-> FALSE, written |-> rlen]

\* SecureRng::fill_bytes with a destination of n bytes; src is what the
\* entropy source does if it is read
FillBytes(buf, pos, n, src) ==
    IF TooLarge(n)
    THEN [res |-> Err("BufferTooLarge"), buffer |-> buf, position |-> pos,
          out |-> <<>>, reads |-> 0, readLen |-> 0, failed |-> FALSE, written |-> 0]
    ELSE IF NeedsRefill(buf, pos, n)
    THEN LET resized == Resize(buf, POOL_SIZE, 0)
             r == GetRandomBytes(resized, src)
         IN IF ~r.ok
            THEN [res |-> Err("IoError"), buffer |-> r.buf,
                  position |-> RefillPosition(pos),
                  out |-> <<>>, reads |-> 1, readLen |-> Len(resized),
                  failed |-> TRUE, written |-> src.cut]
            ELSE CopyOut(r.buf, RefillPosition(pos), n, 1, Len(resized))
    ELSE CopyOut(buf, pos, n, 0, 0)

\* u32::from_ne_bytes on a little-endian machine
FromNeBytes(b) ==
    b[1] + b[2] * ByteBase + b[3] * ByteBase^2 + b[4] * ByteBase^3

\* byte k (from 0) of the stream made of the blocks the source delivered
StreamByte(blocks, k) == blocks[(k \div POOL_SIZE) + 1][(k % POOL_SIZE) + 1]

\* the unbuffered get_random_u32 of src/main.rs and src/rng-tester/src/lib.rs:
\* every call reads 4 bytes from the source, so call i (from 0) on the stream
\* gets its bytes [4i, 4i + 4)
GetRandomU32(blocks, i) ==
    FromNeBytes([j \in 1..WORD_BYTES |-> StreamByte(blocks, WORD_BYTES * i + j - 1)])

\* SecureRng::next_u32: the fill_bytes outcome, with the word as value
NextU32(buf, pos, src) ==
    LET f == FillBytes(buf, pos, WORD_BYTES, src)
    IN IF f.res.kind = "Ok"
       THEN [f EXCEPT !.res = Ok(FromNeBytes(f.out))]
       ELSE f

\* mutant: an Err result is not looked at
IsErrIgnored(res) == FALSE

\* the ? operator: an Err result makes the caller return it at once
IsErr(res) == res.kind # "Ok"

\* gen_range: the precondition, the span (a u32 subtraction), the rejection
\* test of the loop and the value returned
\* mutant: only the empty range is refused
InvalidRangeOnlyEmpty(min, max) == min = max
InvalidRange(min, max) == min >= max
RangeOf(min, max) == (max - min) % (U32MAX + 1)
\* mutant: the first value of the tail is accepted
\* mutant: the tail is cut at the largest multiple of range up to 2^32
RejectedExactModulus(value, range) ==
    value >= (U32MAX + 1) - ((U32MAX + 1) % range)
\* mutant: the remainder is not subtracted from u32::MAX
RejectedNoSubtract(value, range) == value >= U32MAX % range
RejectedOffByOne(value, range) == value > U32MAX - (U32MAX % range)
Rejected(value, range) == value >= U32MAX - (U32MAX % range)
\* mutant: the reduction takes max as a possible value
RangeResultInclusive(min, value, range) == min + (value % (range + 1))
RangeResult(min, value, range) == min + (value % range)

\* ------------------------------------- provider-handle get_random_bytes
\* The three copies of the function: "main2" (src/main2.rs), "main"
\* (src/main.rs), "lib" (src/rng-tester/src/lib.rs). at is the place in the
\* function, acquired whether CryptAcquireContextA succeeded in this call,
\* releases the calls of CryptReleaseContext made in this call, result what
\* the function returned, calls the calls made so far.
NoHandleCall ==
    [copy |-> "none", at |-> "returned", acquired |-> FALSE, releases |-> 0,
     result |-> "none", calls |-> 0]

\* entry: let mut h_prov = 0, before CryptAcquireContextA
HandleEnter(w, copy) ==
    [copy |-> copy, at |-> "acquire", acquired |-> FALSE, releases |-> 0,
     result |-> "none", calls |-> w.calls + 1]

\* CryptAcquireContextA(...) == 0 returns the error at once
HandleAcquire(w, ok) ==
    IF ok
    THEN [w EXCEPT !.at = "generate", !.acquired = TRUE]
    ELSE [w EXCEPT !.at = "returned", !.result = "Err(acquire)"]

\* mutant: a failed CryptGenRandom returns without releasing the handle
HandleGenerateLeak(w, ok) ==
    IF ok
    THEN [w EXCEPT !.at = "release", !.result = "Ok"]
    ELSE [w EXCEPT !.at = "returned", !.result = "Err(generate)"]

\* CryptGenRandom(h_prov, len, ptr): main2 keeps the outcome in `result` and
\* goes on to the release; main and lib release inside the failure branch
HandleGenerate(w, ok) ==
    IF ok
    THEN [w EXCEPT !.at = "release", !.result = "Ok"]
    ELSE IF w.copy = "main2"
    THEN [w EXCEPT !.at = "release", !.result = "Err(generate)"]
    ELSE [w EXCEPT !.at = "release_failed_fill", !.result = "Err(generate)"]

\* CryptReleaseContext(h_prov, 0): on the common path its failure is
\* returned; in the failure branch of main and lib its outcome is ignored
HandleRelease(w, ok) ==
    IF w.at = "release_failed_fill"
    THEN [w EXCEPT !.at = "returned", !.releases = @ + 1]
    ELSE [w EXCEPT !.at = "returned", !.releases = @ + 1,
                   !.result = IF ok THEN w.result ELSE "Err(release)"]

HandleCopies == {"main2", "main", "lib"}

\* ------------------------------------------------------------- Init
NoCall == [op |-> "new", n |-> 0, min |-> 0, max |-> 0]

\* SecureRng::new
Init ==
    /\ buffer = <<>>
    /\ position = 0
    /\ pc = "idle"
    /\ call = NoCall
    /\ u1 = 0
    /\ ret = Pending
    /\ out = <<>>
    /\ reads = 0
    /\ readLen = 0
    /\ retried = FALSE
    /\ opFailed = FALSE
    /\ readAfterFail = FALSE
    /\ failures = 0
    /\ served = {}
    /\ servedTwice = FALSE
    /\ poolFresh = TRUE
    /\ seams = {}
    /\ draws = 0
    /\ refills = 0
    /\ delivered = <<>>
    /\ win = NoHandleCall

\* ------------------------------------------------------------ actions
\* the choices of the entropy source for a step that may read it
Choices(seeds, buf, pos, n, mayFail) ==
    IF ~TooLarge(n) /\ NeedsRefill(buf, pos, n)
    THEN Sources(seeds, mayFail /\ failures < MaxFailures)
    ELSE {NoRead}

\* the pool and the bookkeeping after one fill_bytes outcome f of n bytes;
\* first is TRUE when the step enters a new operation
Pool(f, n, first) ==
    LET kept == IF f.reads > 0 THEN served \ (1..f.written) ELSE served
        span == IF f.res.kind = "Ok"
                THEN (f.position - n + 1)..f.position ELSE {}
    IN /\ buffer' = f.buffer
       /\ position' = f.position
       /\ out' = f.out
       /\ reads' = f.reads
       /\ readLen' = f.readLen
       /\ failures' = IF f.failed THEN failures + 1 ELSE failures
       /\ retried' = ~first
       /\ opFailed' = (f.failed \/ (~first /\ opFailed))
       /\ readAfterFail' = (readAfterFail \/ (~first /\ opFailed /\ f.reads > 0))
       /\ servedTwice' = (servedTwice \/ kept \cap span # {})
       /\ served' = IF servedTwice' THEN {} ELSE kept \cup span

\* rng.fill_bytes(&mut buf) with buf.len() = n
FillBytesCall(seeds, n, mayFail) ==
    /\ pc = "idle"
    /\ \E src \in Choices(seeds, buffer, position, n, mayFail) :
         \E f \in {FillBytes(buffer, position, n, src)} :
            /\ Pool(f, n, TRUE)
            /\ ret' = f.res
            /\ pc' = IF f.res.kind = "Panic" THEN "panicked" ELSE "idle"
    /\ call' = [op |-> "fill_bytes", n |-> n, min |-> 0, max |-> 0]
    /\ u1' = 0

\* where the bytes of the pool come from after the fill_bytes outcome f: a
\* successful read makes the pool one fresh fill; a failed read that wrote
\* `written` bytes leaves them in front of what the pool held before
Provenance(f) ==
    /\ poolFresh' = IF f.reads > 0 THEN ~f.failed ELSE poolFresh
    /\ seams' = IF f.reads = 0 \/ f.written = 0 THEN seams
                ELSE IF f.written >= Len(f.buffer) THEN {}
                ELSE {f.written} \cup {i \in seams : i > f.written}

\* rng.fill_bytes(&mut buf), the provenance of the pool followed
FillBytesTraced(seeds, n, mayFail) ==
    /\ pc = "idle"
    /\ \E src \in Choices(seeds, buffer, position, n, mayFail) :
         \E f \in {FillBytes(buffer, position, n, src)} :
            /\ Pool(f, n, TRUE)
            /\ Provenance(f)
            /\ ret' = f.res
            /\ pc' = IF f.res.kind = "Panic" THEN "panicked" ELSE "idle"
    /\ call' = [op |-> "fill_bytes", n |-> n, min |-> 0, max |-> 0]
    /\ u1' = 0

\* rng.next_u32()
NextU32Call(seeds, mayFail) ==
    /\ pc = "idle"
    /\ \E src \in Choices(seeds, buffer, position, WORD_BYTES, mayFail) :
         \E f \in {NextU32(buffer, position, src)} :
            /\ Pool(f, WORD_BYTES, TRUE)
            /\ ret' = f.res
    /\ pc' = "idle"
    /\ call' = [op |-> "next_u32", n |-> WORD_BYTES, min |-> 0, max |-> 0]
    /\ u1' = 0

\* one turn of gen_range's loop: draw, then reject or return
GenRangeTurn(seeds, min, max, mayFail, first) ==
    \E src \in Choices(seeds, buffer, position, WORD_BYTES, mayFail) :
      \E f \in {NextU32(buffer, position, src)} :
      LET range == RangeOf(min, max)
      IN /\ Pool(f, WORD_BYTES, first)
         /\ IF IsErr(f.res)
            THEN ret' = f.res /\ pc' = "idle"
            ELSE IF Rejected(f.res.val, range)
            THEN ret' = Pending /\ pc' = "gen_range"
            ELSE ret' = Ok(RangeResult(min, f.res.val, range)) /\ pc' = "idle"

\* rng.gen_range(min, max), up to the end of the first turn of its loop
GenRangeCall(seeds, min, max, mayFail) ==
    /\ pc = "idle"
    /\ call' = [op |-> "gen_range", n |-> 0, min |-> min, max |-> max]
    /\ u1' = 0
    /\ IF InvalidRange(min, max)
       THEN /\ ret' = Err("EntropyError")
            /\ pc' = "idle"
            /\ reads' = 0
            /\ readLen' = 0
            /\ out' = <<>>
            /\ retried' = FALSE
            /\ opFailed' = FALSE
            /\ UNCHANGED <<buffer, position, readAfterFail, failures, served, servedTwice>>
       ELSE GenRangeTurn(seeds, min, max, mayFail, TRUE)

\* a further turn of gen_range's loop, after a rejected draw
GenRangeRetry(seeds, mayFail) ==
    /\ pc = "gen_range"
    /\ GenRangeTurn(seeds, call.min, call.max, mayFail, FALSE)
    /\ UNCHANGED <<call, u1>>

\* mutant: every draw is taken
IsNonZeroAlways(v) == TRUE

\* what next_nonzero_u32 does with a draw: NonZeroU32::new(v) is None for 0
IsNonZero(v) == v # 0

\* mutant: the loop gives up with an error on a second zero draw
NonzeroTurnCapped(seeds, mayFail, first) ==
    \E src \in Choices(seeds, buffer, position, WORD_BYTES, mayFail) :
      \E f \in {NextU32(buffer, position, src)} :
         /\ Pool(f, WORD_BYTES, first)
         /\ IF IsErr(f.res)
            THEN ret' = f.res /\ pc' = "idle"
            ELSE IF IsNonZero(f.res.val)
            THEN ret' = f.res /\ pc' = "idle"
            ELSE IF first
            THEN ret' = Pending /\ pc' = "next_nonzero_u32"
            ELSE ret' = Err("EntropyError") /\ pc' = "idle"

\* one turn of next_nonzero_u32's loop
NonzeroTurn(seeds, mayFail, first) ==
    \E src \in Choices(seeds, buffer, position, WORD_BYTES, mayFail) :
      \E f \in {NextU32(buffer, position, src)} :
         /\ Pool(f, WORD_BYTES, first)
         /\ IF IsErr(f.res)
            THEN ret' = f.res /\ pc' = "idle"
            ELSE IF IsNonZero(f.res.val)
            THEN ret' = f.res /\ pc' = "idle"
            ELSE ret' = Pending /\ pc' = "next_nonzero_u32"

\* rng.next_nonzero_u32(), up to the end of the first turn of its loop
NextNonzeroCall(seeds, mayFail) ==
    /\ pc = "idle"
    /\ call' = [op |-> "next_nonzero_u32", n |-> 0, min |-> 0, max |-> 0]
    /\ u1' = 0
    /\ NonzeroTurn(seeds, mayFail, TRUE)

\* a further turn of next_nonzero_u32's loop, after a zero draw
NextNonzeroRetry(seeds, mayFail) ==
    /\ pc = "next_nonzero_u32"
    /\ NonzeroTurn(seeds, mayFail, FALSE)
    /\ UNCHANGED <<call, u1>>

\* v as f64 / u32::MAX as f64, as the fraction num / den (both exact in f64)
ScaleToUnit(v) == [num |-> v, den |-> U32MAX]

\* gen_normal's result for the two draws: the transform is finite unless
\* u1 = v1 / u32::MAX is 0, where ln(u1) is -infinity
NormalResult(v1, v2) ==
    [kind |-> "Ok", val |-> IF v1 = 0 THEN 0 ELSE 1, err |-> "none"]

\* rng.gen_normal(mean, std_dev), up to its first draw
GenNormalCall(seeds, mayFail) ==
    /\ pc = "idle"
    /\ call' = [op |-> "gen_normal", n |-> 0, min |-> 0, max |-> 0]
    /\ \E src \in Choices(seeds, buffer, position, WORD_BYTES, mayFail) :
         \E f \in {NextU32(buffer, position, src)} :
            /\ Pool(f, WORD_BYTES, TRUE)
            /\ IF IsErr(f.res)
               THEN ret' = f.res /\ pc' = "idle" /\ u1' = 0
               ELSE ret' = Pending /\ pc' = "gen_normal" /\ u1' = f.res.val

\* gen_normal's second draw and its return
GenNormalSecond(seeds, mayFail) ==
    /\ pc = "gen_normal"
    /\ \E src \in Choices(seeds, buffer, position, WORD_BYTES, mayFail) :
         \E f \in {NextU32(buffer, position, src)} :
            /\ Pool(f, WORD_BYTES, FALSE)
            /\ ret' = IF IsErr(f.res) THEN f.res ELSE NormalResult(u1, f.res.val)
    /\ pc' = "idle"
    /\ u1' = 0
    /\ UNCHANGED call

\* ----------------------------------------------------- specifications
\* request lengths of fill_bytes
FillLens == {0, WORD_BYTES, POOL_SIZE - 1, POOL_SIZE, POOL_SIZE + 1,
             BufferCap, BufferCap + 1}
\* ranges asked of gen_range in the full machine: <<min, max>>
FewRanges == {<<0, 3>>, <<5, 5>>, <<10, 3>>}

\* the full machine: every operation, entropy reads that succeed or fail
Uncounted == UNCHANGED <<poolFresh, seams, draws, refills, delivered, win>>

Next ==
    \/ \E n \in FillLens : FillBytesCall(FewSeeds, n, TRUE) /\ Uncounted
    \/ NextU32Call(FewSeeds, TRUE) /\ Uncounted
    \/ \E r \in FewRanges : GenRangeCall(FewSeeds, r[1], r[2], TRUE) /\ Uncounted
    \/ GenRangeRetry(FewSeeds, TRUE) /\ Uncounted
    \/ NextNonzeroCall(FewSeeds, TRUE) /\ Uncounted
    \/ NextNonzeroRetry(FewSeeds, TRUE) /\ Uncounted
    \/ GenNormalCall(FewSeeds, TRUE) /\ Uncounted
    \/ GenNormalSecond(FewSeeds, TRUE) /\ Uncounted

Spec == Init /\ [][Next]_vars

\* gen_range and next_nonzero_u32 called on a new generator, over every
\* span and every first draw
RangeMins(span) == {m \in {0, 1, U32MAX - span} : m + span <= U32MAX}
AllRanges ==
    UNION {{<<m, m + span>> : m \in RangeMins(span)} : span \in 1..U32MAX}
        \cup {<<5, 5>>, <<10, 3>>, <<0, 0>>, <<U32MAX, 0>>}

NextRange ==
    \/ /\ call.op = "new"
       /\ \E r \in AllRanges : GenRangeCall(AllSeeds, r[1], r[2], TRUE)
       /\ Uncounted
    \/ GenRangeRetry(AllSeeds, TRUE) /\ Uncounted
    \/ call.op = "new" /\ NextNonzeroCall(AllSeeds, TRUE) /\ Uncounted
    \/ NextNonzeroRetry(AllSeeds, TRUE) /\ Uncounted

SpecRange == Init /\ [][NextRange]_vars

\* a further turn of a retry loop, and one that ends the call
RetryTurn ==
    \/ GenRangeRetry(AllSeeds, TRUE) /\ Uncounted
    \/ NextNonzeroRetry(AllSeeds, TRUE) /\ Uncounted
ReturningTurn == RetryTurn /\ pc' = "idle"

\* the retry loops keep running, and the entropy source does not withhold
\* for ever a draw that ends the loop (an acceptable value, or a failure)
SpecRetry ==
    Init /\ [][NextRange]_vars /\ WF_vars(RetryTurn) /\ SF_vars(ReturningTurn)

\* next_u32 called again and again on a new generator, every entropy read
\* succeeding; draws and refills count the calls and the reads
NextDraws ==
    /\ draws < MaxDraws
    /\ NextU32Call(FewSeeds, FALSE)
    /\ draws' = draws + 1
    /\ refills' = refills + reads'
    /\ delivered' = IF reads' = 1 THEN Append(delivered, buffer') ELSE delivered
    /\ UNCHANGED <<poolFresh, seams, win>>

SpecDraws == Init /\ [][NextDraws]_vars

\* fill_bytes called again and again, reads failing or not, with the
\* provenance of the pool's bytes followed
NextTraced ==
    /\ \E n \in FillLens : FillBytesTraced(FewSeeds, n, TRUE)
    /\ UNCHANGED <<draws, refills, delivered, win>>

SpecTraced == Init /\ [][NextTraced]_vars

\* the provider-handle get_random_bytes of each copy, called again and
\* again, each of its three system calls succeeding or failing
HandleCall ==
    /\ win.at = "returned"
    /\ win.calls < MaxHandleCalls
    /\ \E copy \in HandleCopies : win' = HandleEnter(win, copy)
    /\ UNCHANGED <<rngVars, draws, refills, delivered>>

HandleAcquireStep ==
    /\ win.at = "acquire"
    /\ \E ok \in BOOLEAN : win' = HandleAcquire(win, ok)
    /\ UNCHANGED <<rngVars, draws, refills, delivered>>

HandleGenerateStep ==
    /\ win.at = "generate"
    /\ \E ok \in BOOLEAN : win' = HandleGenerate(win, ok)
    /\ UNCHANGED <<rngVars, draws, refills, delivered>>

HandleReleaseStep ==
    /\ win.at \in {"release", "release_failed_fill"}
    /\ \E ok \in BOOLEAN : win' = HandleRelease(win, ok)
    /\ UNCHANGED <<rngVars, draws, refills, delivered>>

NextHandle ==
    \/ HandleCall
    \/ HandleAcquireStep
    \/ HandleGenerateStep
    \/ HandleReleaseStep

SpecHandle == Init /\ [][NextHandle]_vars

\* ------------------------------------------------------------- claims
\* C1: between refills each pool index is served at most once: no byte that
\* was handed to a caller is handed out again before the source rewrote it.
NoByteServedTwice == ~servedTwice

\* C2: every operation ends in Ok or Err, never in an out-of-bounds access
\* on the pool.
NeverAborts == ret.kind # "Panic" /\ pc # "panicked"

\* C3: in every reachable state 0 <= position <= buffer.len().
CursorInPool == 0 <= position /\ position <= Len(buffer)

CursorAtEndAfterFailure ==
    /\ Len(buffer) = POOL_SIZE
    /\ position = POOL_SIZE
    /\ failures > 0

\* C4: fill_bytes with a length above the cap fails with BufferTooLarge,
\* whatever the pool state, without reading the entropy source and leaving
\* buffer and position unchanged.
OversizeRejected ==
    [][(pc = "idle" /\ call'.op = "fill_bytes" /\ call'.n > BufferCap)
          => /\ ret' = Err("BufferTooLarge")
             /\ reads' = 0
             /\ buffer' = buffer
             /\ position' = position]_vars

OversizeOnUsedPool ==
    /\ call.op = "fill_bytes"
    /\ call.n = BufferCap + 1
    /\ ret = Err("BufferTooLarge")
    /\ Len(buffer) = POOL_SIZE
    /\ position > 0
    /\ position < POOL_SIZE

\* C5: gen_range(min, max) with min >= max fails with the invalid-range
\* error kind (RngError::EntropyError in the code) and draws nothing: the
\* entropy source is not read, buffer and position are unchanged.
InvalidRangeRejected ==
    [][(pc = "idle" /\ call'.op = "gen_range" /\ call'.min >= call'.max)
          => /\ ret' = Err("EntropyError")
             /\ pc' = "idle"
             /\ reads' = 0
             /\ buffer' = buffer
             /\ position' = position]_vars

InvalidRangeOnNewAndUsed ==
    /\ call.op = "gen_range"
    /\ call.min > call.max
    /\ ret = Err("EntropyError")
    /\ reads = 0
    /\ position > 0

\* C6: whenever gen_range(min, max) returns Ok(r), min <= r < max, and r
\* fits the unsigned word.
RangeResultInRange ==
    (call.op = "gen_range" /\ ret.kind = "Ok")
        => /\ call.min <= ret.val
           /\ ret.val < call.max
           /\ ret.val <= U32MAX

RangeTopAfterRejection ==
    /\ call.op = "gen_range"
    /\ ret.kind = "Ok"
    /\ call.max = U32MAX
    /\ ret.val = U32MAX - 1
    /\ retried

\* C7: among the accepted draws every residue has the same number of
\* preimages: the residue a call returns has as many as residue 0.
Preimages(span, r) ==
    Cardinality({v \in 0..U32MAX : ~Rejected(v, span) /\ RangeResult(0, v, span) = r})

NoModuloBias ==
    (call.op = "gen_range" /\ ret.kind = "Ok")
        => LET span == call.max - call.min
           IN Preimages(span, ret.val - call.min) = Preimages(span, 0)

UnevenSpanLastResidue ==
    /\ call.op = "gen_range"
    /\ ret.kind = "Ok"
    /\ (U32MAX + 1) % (call.max - call.min) # 0
    /\ ret.val = call.max - 1
    /\ call.max - call.min = 3

\* C8: next_nonzero_u32 never returns 0.
NonzeroNeverZero ==
    (call.op = "next_nonzero_u32" /\ ret.kind = "Ok") => ret.val # 0

NonzeroAfterZeroDraw ==
    /\ call.op = "next_nonzero_u32"
    /\ ret.kind = "Ok"
    /\ retried

\* C9: the first failed entropy read ends the operation with that error,
\* and no entropy read follows it inside the operation.
FailureSurfaced ==
    /\ opFailed => (pc = "idle" /\ ret = Err("IoError"))
    /\ ~readAfterFail

FailureInsideLoop ==
    /\ opFailed
    /\ retried
    /\ call.op = "next_nonzero_u32"

\* C10: with every read succeeding, k draws of 4 bytes on a new generator
\* make ceil(k / 256) refills: a read happens on draws 1, 257, 513, ... and
\* on no other, and each reads 1024 bytes.
DrawsPerPool == POOL_SIZE \div WORD_BYTES

RefillCount ==
    /\ refills = (draws + DrawsPerPool - 1) \div DrawsPerPool
    /\ draws > 0 => (reads = 1 <=> draws % DrawsPerPool = 1)
    /\ reads = 1 => readLen = POOL_SIZE
    /\ ret.kind # "Err"

ThirdRefill == draws = 2 * DrawsPerPool + 1 /\ refills = 3

\* C11: in every copy of the provider-handle get_random_bytes, a call that
\* acquired the handle has released it exactly once when it returns, also
\* when the byte fill failed; a call whose acquisition failed releases
\* nothing; no call releases twice.
HandleReleasedOnce ==
    /\ win.releases <= 1
    /\ ~win.acquired => win.releases = 0
    /\ (win.at = "returned" /\ win.acquired) => win.releases = 1

HandleReleasedAfterFailedFill ==
    /\ win.at = "returned"
    /\ win.result = "Err(generate)"
    /\ win.releases = 1
    /\ win.copy = "lib"
    /\ win.calls = 2

\* C12: gen_normal scales its first draw v to u1 = v / u32::MAX with
\* 0 < u1 <= 1 for every draw, the draw 0 included, so that ln(u1) is finite.
FirstUniformPositive ==
    pc = "gen_normal" =>
        /\ ScaleToUnit(u1).num > 0
        /\ ScaleToUnit(u1).num <= ScaleToUnit(u1).den
\* C13: every byte a draw consumes was written by a successful entropy
\* read: once a read has failed, no draw is served from the pool (zero
\* padding, a partly written pool, or the previous content) until a later
\* read has succeeded.
OnlyFreshBytesServed == Len(out) > 0 => poolFresh

\* C14: a successful fill_bytes of n <= 1024 bytes with cursor p and pool
\* length L either serves pool[p, p + n) with no read and moves the cursor to
\* p + n (n <= L - p), or reads exactly 1024 bytes once, serves the first n
\* bytes of the new pool and leaves the cursor at n (n > L - p).
FillBytesStep ==
    [][(pc = "idle" /\ call'.op = "fill_bytes" /\ ret'.kind = "Ok") =>
        IF call'.n <= Len(buffer) - position
        THEN /\ reads' = 0
             /\ buffer' = buffer
             /\ out' = SubSeq(buffer, position + 1, position + call'.n)
             /\ position' = position + call'.n
        ELSE /\ reads' = 1
             /\ readLen' = POOL_SIZE
             /\ Len(buffer') = POOL_SIZE
             /\ out' = SubSeq(buffer', 1, call'.n)
             /\ position' = call'.n]_vars

\* an earlier read failed, so this refill found a pool of 1024 bytes and a
\* cursor past its start
FillBytesRefilledMidPool ==
    /\ call.op = "fill_bytes"
    /\ call.n = POOL_SIZE - 1
    /\ ret.kind = "Ok"
    /\ reads = 1
    /\ position = POOL_SIZE - 1
    /\ failures > 0

\* C18: the pool holds 0 bytes before the first refill and exactly 1024
\* bytes after any refill, whatever length was requested.
PoolLengthFixed == Len(buffer) \in {0, POOL_SIZE}

PoolFullAfterLargestRequest ==
    /\ call.op = "fill_bytes"
    /\ call.n = BufferCap
    /\ reads = 1
    /\ Len(buffer) = POOL_SIZE

\* C20: the bytes a successful draw returns are a contiguous slice of one
\* pool fill: the span never runs across a place where the pool changes
\* from the bytes of one read to the bytes of another.
SpanOfSingleFill ==
    Len(out) > 0 =>
        \A i \in seams : ~(position - Len(out) + 1 <= i /\ i < position)
\* the draw the last turn of a retry loop took, and the largest multiple of
\* span not above u32::MAX
LastDraw == FromNeBytes(out)
LargestMultiple(span) == (U32MAX \div span) * span
InRangeTurn == call.op = "gen_range" /\ call.min < call.max /\ Len(out) = WORD_BYTES

\* C15 as stated: gen_range discards a draw v exactly when v is at or above
\* the largest multiple of span not exceeding u32::MAX, and when 2^32 is a
\* multiple of span no draw is discarded.
DiscardOnlyUnevenTail ==
    InRangeTurn =>
        LET span == call.max - call.min
        IN /\ pc = "gen_range" <=> LastDraw >= LargestMultiple(span)
           /\ (U32MAX + 1) % span = 0 => pc # "gen_range"

\* C15: gen_range discards a draw v exactly when v is at or above the
\* largest multiple of span not exceeding u32::MAX = 2^32 - 1; when 2^32 is a
\* multiple of span that is 2^32 - span, so the top span values are discarded
\* although they would map evenly.
DiscardFromLargestMultiple ==
    InRangeTurn =>
        LET span == call.max - call.min
        IN /\ pc = "gen_range" <=> LastDraw >= LargestMultiple(span)
           /\ (U32MAX + 1) % span = 0 =>
                 (pc = "gen_range" <=> LastDraw >= U32MAX + 1 - span)

DiscardedThoughEven ==
    /\ InRangeTurn
    /\ call.max - call.min = 2
    /\ (U32MAX + 1) % 2 = 0
    /\ LastDraw = U32MAX - 1
    /\ pc = "gen_range"

\* C16: the retry loops have no cap: a turn that draws an unacceptable value
\* (0 for next_nonzero_u32, the rejected tail for gen_range) is followed by
\* another turn, only a failed read makes them return an error, a turn
\* consumes exactly one draw of 4 bytes, and the call returns in the end.
RetryUntilAccepted ==
    /\ []((call.op = "next_nonzero_u32" /\ Len(out) = WORD_BYTES)
              => (pc = "next_nonzero_u32" <=> LastDraw = 0))
    /\ [](InRangeTurn
              => (LastDraw >= LargestMultiple(call.max - call.min)
                      => pc = "gen_range"))
    /\ []((ret.kind = "Err" /\ (call.op = "next_nonzero_u32" \/ InRangeTurn))
              => (opFailed /\ ret = Err("IoError")))
    /\ [][(pc \in {"gen_range", "next_nonzero_u32"} /\ ret'.kind # "Err")
              => /\ Len(out') = WORD_BYTES
                 /\ reads' = 0 => position' = position + WORD_BYTES
                 /\ reads' = 1 => position' = WORD_BYTES]_vars
    /\ (pc \in {"gen_range", "next_nonzero_u32"}) ~> (pc = "idle")

RetriedAcrossRefill ==
    /\ call.op = "next_nonzero_u32"
    /\ retried
    /\ reads = 1
    /\ ret.kind = "Ok"

\* C17: for every valid span at least half of the 2^32 draw values are
\* accepted.
AcceptedDraws(span) == Cardinality({v \in 0..U32MAX : ~Rejected(v, span)})

AtLeastHalfAccepted ==
    (call.op = "gen_range" /\ call.min < call.max)
        => 2 * AcceptedDraws(call.max - call.min) >= U32MAX + 1

ExactlyHalfAccepted ==
    /\ InRangeTurn
    /\ 2 * AcceptedDraws(call.max - call.min) = U32MAX + 1
    /\ pc = "gen_range"
\* C19: with every read succeeding, the i-th next_u32 value is built from
\* bytes [4i, 4i + 4) of the stream the entropy source delivered, no byte
\* skipped or repeated: the values are those of the unbuffered
\* get_random_u32 reading 4 bytes a call from the same stream, and no block
\* is read before the previous one is used up.
BufferingTransparent ==
    draws > 0 =>
        /\ ret = Ok(GetRandomU32(delivered, draws - 1))
        /\ Len(delivered) = ((WORD_BYTES * draws - 1) \div POOL_SIZE) + 1
        /\ (Len(delivered) - 1) * POOL_SIZE + position = WORD_BYTES * draws

SecondBlockFirstWord ==
    /\ draws = DrawsPerPool + 1
    /\ Len(delivered) = 2
    /\ delivered[1] # delivered[2]
    /\ ret = Ok(U32MAX)
====
